---- MODULE Spec2Model ----
(***************************************************************************)
(* Running-note creation and tagged-user notification of genomics-status   *)
(* (status/running_notes.py): NEWRunningNotesDataHandler.post,             *)
(* make_running_note and notify_tagged_user, as a state machine.           *)
(*                                                                         *)
(* Text (note bodies, e-mail addresses, handles, the project_coordinator   *)
(* field) is a sequence of one-character strings, so that the regular      *)
(* expression, str.split, str.lower and the NFKD/ASCII conversion are      *)
(* computed character by character as Python computes them.  A character   *)
(* outside ASCII is written by its name ("Aring" is U+00C5).               *)
(***************************************************************************)
EXTENDS Integers, Sequences, FiniteSets, TLC

(***************************************************************************)
(* Bounds of the model.                                                    *)
(***************************************************************************)
\* number of POST requests with freely chosen arguments in one run
MaxPosts == 1
\* number of times a client then sends the previous request once more
MaxRepeats == 1

(***************************************************************************)
(* Characters.                                                             *)
(***************************************************************************)
LowerLetters ==
    {"a","b","c","d","e","f","g","h","i","j","k","l","m",
     "n","o","p","q","r","s","t","u","v","w","x","y","z"}

UpperLetters ==
    {"A","B","C","D","E","F","G","H","I","J","K","L","M",
     "N","O","P","Q","R","S","T","U","V","W","X","Y","Z"}

Digits == {"0","1","2","3","4","5","6","7","8","9"}

\* the character class [a-zA-Z0-9.-] of the tag pattern
HandleChars == LowerLetters \cup UpperLetters \cup Digits \cup {".", "-"}

\* str.lower() of one character
LowerChar(c) ==
    CASE c = "A" -> "a" [] c = "B" -> "b" [] c = "C" -> "c" [] c = "D" -> "d"
      [] c = "E" -> "e" [] c = "F" -> "f" [] c = "G" -> "g" [] c = "H" -> "h"
      [] c = "I" -> "i" [] c = "J" -> "j" [] c = "K" -> "k" [] c = "L" -> "l"
      [] c = "M" -> "m" [] c = "N" -> "n" [] c = "O" -> "o" [] c = "P" -> "p"
      [] c = "Q" -> "q" [] c = "R" -> "r" [] c = "S" -> "s" [] c = "T" -> "t"
      [] c = "U" -> "u" [] c = "V" -> "v" [] c = "W" -> "w" [] c = "X" -> "x"
      [] c = "Y" -> "y" [] c = "Z" -> "z"
      [] c = "Aring" -> "aring" [] c = "Ouml" -> "ouml" [] c = "Oslash" -> "oslash"
      [] OTHER -> c

\* unicodedata.normalize("NFKD", c).encode("ASCII", "ignore") of one character:
\* the base letter of a decomposable character, nothing for a character that
\* has no ASCII part, the character itself when it is ASCII
AsciiOfChar(c) ==
    CASE c = "aring" -> <<"a">> [] c = "Aring" -> <<"A">>
      [] c = "ouml" -> <<"o">> [] c = "Ouml" -> <<"O">>
      [] c = "oslash" -> <<>> [] c = "Oslash" -> <<>>
      [] OTHER -> <<c>>

Whitespace == {" ", "\n", "\t"}

(***************************************************************************)
(* String functions of the Python code.                                    *)
(***************************************************************************)
RECURSIVE Lower(_)
Lower(s) == IF s = <<>> THEN <<>> ELSE <<LowerChar(Head(s))>> \o Lower(Tail(s))

\* s.split(): the maximal runs of non-whitespace characters
RECURSIVE SplitWs(_, _)
SplitWs(s, cur) ==
    IF s = <<>> THEN (IF cur = <<>> THEN <<>> ELSE <<cur>>)
    ELSE IF Head(s) \in Whitespace
         THEN (IF cur = <<>> THEN <<>> ELSE <<cur>>) \o SplitWs(Tail(s), <<>>)
         ELSE SplitWs(Tail(s), Append(cur, Head(s)))

\* ".".join(parts)
RECURSIVE JoinDot(_)
JoinDot(parts) ==
    IF parts = <<>> THEN <<>>
    ELSE IF Len(parts) = 1 THEN parts[1]
    ELSE parts[1] \o <<".">> \o JoinDot(Tail(parts))

RECURSIVE NfkdAscii(_)
NfkdAscii(s) == IF s = <<>> THEN <<>> ELSE AsciiOfChar(Head(s)) \o NfkdAscii(Tail(s))

\* s.split("@")[0]: the text left of the first "@", all of s when it has none
RECURSIVE LocalPart(_)
LocalPart(s) ==
    IF s = <<>> \/ Head(s) = "@" THEN <<>> ELSE <<Head(s)>> \o LocalPart(Tail(s))

\* the longest prefix of s made of handle characters
RECURSIVE HandleRun(_)
HandleRun(s) ==
    IF s = <<>> \/ Head(s) \notin HandleChars THEN <<>>
    ELSE <<Head(s)>> \o HandleRun(Tail(s))

Drop(s, n) == SubSeq(s, n + 1, Len(s))

\* the first match alone, as pattern.search would give: the fault C18 excludes
RECURSIVE FindUserTags_First(_)
FindUserTags_First(note) ==
    IF note = <<>> THEN <<>>
    ELSE IF Head(note) = "@" /\ HandleRun(Tail(note)) # <<>>
         THEN <<HandleRun(Tail(note))>>
         ELSE FindUserTags_First(Tail(note))

\* [x[1] for x in re.compile("(@)([a-zA-Z0-9.-]+)").findall(note)]
RECURSIVE FindUserTags(_)
FindUserTags(note) ==
    IF note = <<>> THEN <<>>
    ELSE IF Head(note) = "@" /\ HandleRun(Tail(note)) # <<>>
         THEN <<HandleRun(Tail(note))>>
                \o FindUserTags(Drop(note, 1 + Len(HandleRun(Tail(note)))))
         ELSE FindUserTags(Tail(note))

SeqToSet(s) == {s[i] : i \in 1..Len(s)}

(***************************************************************************)
(* The databases the handler reads.  They are not written by this code, so *)
(* they are definitions; what the code writes is in the variables below.   *)
(***************************************************************************)
DictGet(d, k, default) == IF k \in DOMAIN d THEN d[k] ELSE default

\* projects_db, view "project/project_id": project id -> document id
ProjectIdView == [P1 |-> "doc1", P2 |-> "doc2"]

\* projects_db documents; P2 has no project_coordinator in its details
ProjectDocs ==
    [doc1 |-> [project_name |-> "Alpha",
               details |-> [project_coordinator |-> <<"Aring">>]],
     doc2 |-> [project_name |-> "Beta",
               details |-> [type |-> "Production"]]]

\* x_flowcells_db, view "names/project_ids_list": run id -> list of project ids
XFlowcellProjects == [FC1 |-> <<"P1", "P2">>, FC2 |-> <<>>]

\* nanopore_runs_db, view "names/project_ids_list"
NanoporeProjects == [R1 |-> <<"P1">>]

EmailA == <<"a", "@", "x">>
EmailB == <<"b", "@", "x">>
GenstatDefaults ==
    <<"g","e","n","s","t","a","t","_","d","e","f","a","u","l","t","s">>

\* gs_users_db, view "authorized/users": the row keys
AuthorizedUsers == {EmailA, EmailB, GenstatDefaults}

\* view_result of notify_tagged_user: handle -> e-mail address
ViewResult ==
    LET keys == {k \in AuthorizedUsers : k # GenstatDefaults}
    IN  [h \in {LocalPart(k) : k \in keys} |->
            CHOOSE k \in keys : LocalPart(k) = h]

Preferences == {"Slack", "E-mail", "Both"}
Unset == "unset"

(***************************************************************************)
(* What a POST request may carry.                                          *)
(***************************************************************************)
Partitions == {"P1", "P2", "FC1", "FC2", "R1"}
NoteTypes == {"project", "flowcell", "workset", "flowcell_ont", ""}
NotePlain == <<"h", "i">>
NoteZB == <<"@", "z", " ", "@", "b">>
NoteAB == <<"@", "a", " ", "@", "b">>
\* <<>> is a request without "note" (data.get("note", ""))
Notes == {<<>>, NotePlain, NoteZB, NoteAB}
Authors == {[name |-> "Ann", email |-> EmailA], [name |-> "Bob", email |-> EmailB]}
CategoryLists == {<<"Lab", "Admin">>}

\* value of a variable that holds nothing yet (a Python local not yet bound, no
\* request taken): the code never reads it, see the UnboundLocalError of Resolve
NoRequest ==
    [partition_id |-> "", note |-> <<>>, categories |-> <<>>, user |-> "",
     email |-> <<>>, note_type |-> "", created_time |-> 0]
NoNote ==
    [_id |-> <<"", 0>>, user |-> "", email |-> <<>>, note |-> <<>>,
     categories |-> <<>>, projects |-> <<>>, parent |-> "", note_type |-> "",
     created_at_utc |-> 0, updated_at_utc |-> 0]

VARIABLES
    running_notes_db,          \* application.running_notes_db: the saved notes
    project_running_notes,     \* what make_project_running_note has written
    notification_preferences,  \* gs_users_db: e-mail -> preference or Unset
    posts,                     \* POST requests received so far
    created_ids,               \* the _id of every note a create has returned
    pc,                        \* position of the request being handled
    request,                   \* arguments of the current make_running_note
    connected_projects,        \* local of make_running_note
    proj_ids,                  \* local of make_running_note
    proj_coord_with_accents,   \* local of make_running_note
    newNote,                   \* local of make_running_note
    saved,                     \* line 133 has stored newNote for this request
    userTags,                  \* local of make_running_note
    n_tags,                    \* notify_tagged_user: handles still to visit
    n_after,                   \* where make_running_note continues after it
    calls,                     \* notify_tagged_user calls of this request
    outcomes,                  \* per visited handle: what was attempted
    to_copy,                   \* projects still to receive the copied note
    copied,                    \* make_project_running_note calls of this request
    copies_at_post,            \* Len(project_running_notes) when it arrived
    error,                     \* exception that ended the request, or "none"
    response,                  \* HTTP status and body of the request
    cached_fc_list,            \* FlowcellSearchHandler.cached_fc_list
    cached_xfc_list,           \* FlowcellSearchHandler.cached_xfc_list
    cached_ont_fc_list,        \* FlowcellSearchHandler.cached_ont_fc_list
    last_fetched,              \* FlowcellSearchHandler.last_fetched
    now,                       \* datetime.datetime.now(), in minutes
    searches,                  \* flowcell searches received so far
    s_pc,                      \* position of the search being handled
    search_string,             \* argument of search_flowcell_names
    s_error,                   \* exception that ended the search, or "none"
    s_response                 \* what search_flowcell_names returned

vars ==
    <<running_notes_db, project_running_notes, notification_preferences, posts,
      created_ids, pc, request, connected_projects, proj_ids, proj_coord_with_accents,
      newNote, saved, userTags, n_tags, n_after, calls, outcomes, to_copy,
      copied, copies_at_post, error, response,
      cached_fc_list, cached_xfc_list, cached_ont_fc_list, last_fetched, now,
      searches, s_pc, search_string, s_error, s_response>>

stores == <<running_notes_db, project_running_notes, notification_preferences>>
history == <<posts, created_ids>>
locals ==
    <<connected_projects, proj_ids, proj_coord_with_accents, newNote, userTags>>
notifying == <<n_tags, n_after, calls, outcomes>>
copying == <<to_copy, copied, copies_at_post>>
\* the class attributes of FlowcellSearchHandler and the search being handled
cache == <<cached_fc_list, cached_xfc_list, cached_ont_fc_list, last_fetched>>
searching == <<now, searches, s_pc, search_string, s_error, s_response>>

\* an attribute that is None holds nothing; one that is set holds its value
None == <<>>
Some(v) == <<v>>

\* lines 267-270: the class attributes when the class statement has run, and
\* no search received
NoSearch ==
    /\ cached_fc_list = None
    /\ cached_xfc_list = None
    /\ cached_ont_fc_list = None
    /\ last_fetched = None
    /\ now = 0
    /\ searches = 0
    /\ s_pc = "idle"
    /\ search_string = <<>>
    /\ s_error = "none"
    /\ s_response = [kind |-> "none", items |-> <<>>]

\* created_time=datetime.datetime.now(datetime.timezone.utc) in the signature:
\* Python evaluates a default once, when the def statement runs at import.
\* Time is counted in requests; the module is imported before the first one.
ImportTime == 0
DefaultCreatedTime == ImportTime

Init ==
    /\ running_notes_db = {}
    /\ project_running_notes = <<>>
    /\ notification_preferences \in [{EmailA, EmailB} -> Preferences \cup {Unset}]
    /\ posts = 0
    /\ created_ids = {}
    /\ pc = "idle"
    /\ request = NoRequest
    /\ connected_projects = <<>>
    /\ proj_ids = <<>>
    /\ proj_coord_with_accents = <<>>
    /\ newNote = NoNote
    /\ saved = FALSE
    /\ userTags = <<>>
    /\ n_tags = <<>>
    /\ n_after = "none"
    /\ calls = <<>>
    /\ outcomes = <<>>
    /\ to_copy = <<>>
    /\ copied = <<>>
    /\ copies_at_post = 0
    /\ error = "none"
    /\ response = [status |-> 0, note |-> NoNote]
    /\ NoSearch

\* the handler is synchronous: a request is taken when the previous one ended
Finished == pc \in {"idle", "returned", "raised", "rejected"}

Raise(exc) ==
    /\ pc' = "raised"
    /\ error' = exc
    /\ response' = [status |-> 500, note |-> NoNote]

\* post without the test of line 63: an empty note is handed to
\* make_running_note, the fault C16 excludes
post_NoValidation(partition_id, note, category, note_type, user) ==
    /\ Finished
    /\ posts' = posts + 1
    /\ UNCHANGED created_ids
    /\ connected_projects' = <<>>
    /\ proj_ids' = <<>>
    /\ proj_coord_with_accents' = <<>>
    /\ newNote' = NoNote
    /\ saved' = FALSE
    /\ userTags' = <<>>
    /\ n_tags' = <<>>
    /\ n_after' = "none"
    /\ calls' = <<>>
    /\ outcomes' = <<>>
    /\ to_copy' = <<>>
    /\ copied' = <<>>
    /\ copies_at_post' = Len(project_running_notes)
    /\ error' = "none"
    /\ pc' = "resolve"
    /\ request' = [partition_id |-> partition_id,
                   note |-> note,
                   categories |-> category,
                   user |-> user.name,
                   email |-> user.email,
                   note_type |-> note_type,
                   created_time |-> DefaultCreatedTime]
    /\ response' = [status |-> 0, note |-> NoNote]
    /\ UNCHANGED stores
    /\ UNCHANGED <<cache, searching>>

(***************************************************************************)
(* post: lines 57-79.                                                      *)
(***************************************************************************)
post(partition_id, note, category, note_type, user) ==
    /\ Finished
    /\ posts' = posts + 1
    /\ UNCHANGED created_ids
    /\ connected_projects' = <<>>
    /\ proj_ids' = <<>>
    /\ proj_coord_with_accents' = <<>>
    /\ newNote' = NoNote
    /\ saved' = FALSE
    /\ userTags' = <<>>
    /\ n_tags' = <<>>
    /\ n_after' = "none"
    /\ calls' = <<>>
    /\ outcomes' = <<>>
    /\ to_copy' = <<>>
    /\ copied' = <<>>
    /\ copies_at_post' = Len(project_running_notes)
    /\ error' = "none"
    /\ IF note = <<>>
       THEN /\ pc' = "rejected"
            /\ request' = NoRequest
            /\ response' = [status |-> 400, note |-> NoNote]
       ELSE /\ pc' = "resolve"
            /\ request' = [partition_id |-> partition_id,
                           note |-> note,
                           categories |-> category,
                           user |-> user.name,
                           email |-> user.email,
                           note_type |-> note_type,
                           created_time |-> DefaultCreatedTime]
            /\ response' = [status |-> 0, note |-> NoNote]
    /\ UNCHANGED stores
    /\ UNCHANGED <<cache, searching>>

Post ==
    /\ posts < MaxPosts
    /\ \E partition_id \in Partitions, note \in Notes, category \in CategoryLists,
          note_type \in NoteTypes, user \in Authors :
           post(partition_id, note, category, note_type, user)

\* the same body is posted again by the same user
PostAgain ==
    /\ posts >= MaxPosts
    /\ posts < MaxPosts + MaxRepeats
    /\ request.note # <<>>
    /\ post(request.partition_id, request.note, request.categories,
            request.note_type, [name |-> request.user, email |-> request.email])

(***************************************************************************)
(* make_running_note, lines 92-131: the projects of the note, then newNote *)
(***************************************************************************)
\* view(...).rows[0].value: a key without a row raises IndexError
HasRow(view, key) == key \in DOMAIN view

\* the exception lines 92-131 raise for these arguments, "none" when they go
\* through.  A project id without a row leaves doc_id unbound (the for loop of
\* line 95 runs zero times); a note_type that no branch handles leaves
\* connected_projects unbound, and line 126 reads it.
ResolveError(partition_id, note_type) ==
    CASE note_type = "project" ->
            IF HasRow(ProjectIdView, partition_id) THEN "none"
            ELSE "UnboundLocalError"
      [] note_type = "flowcell" ->
            IF HasRow(XFlowcellProjects, partition_id) THEN "none"
            ELSE "IndexError"
      [] note_type = "flowcell_ont" ->
            IF HasRow(NanoporeProjects, partition_id) THEN "none"
            ELSE "IndexError"
      [] OTHER -> "UnboundLocalError"

\* the project note is given proj_ids, the id with the project's name, as its
\* projects: the fault C15 (as amended) excludes
ConnectedProjects_WithName(partition_id, note_type) ==
    CASE note_type = "project" ->
            <<partition_id, ProjectDocs[ProjectIdView[partition_id]].project_name>>
      [] note_type = "flowcell" -> XFlowcellProjects[partition_id]
      [] note_type = "flowcell_ont" -> NanoporeProjects[partition_id]

\* connected_projects as lines 93, 105-111 and 113-119 bind it
ConnectedProjects(partition_id, note_type) ==
    CASE note_type = "project" -> <<partition_id>>
      [] note_type = "flowcell" -> XFlowcellProjects[partition_id]
      [] note_type = "flowcell_ont" -> NanoporeProjects[partition_id]

\* ".".join(doc["details"].get("project_coordinator", "").lower().split())
ProjCoordWithAccents(doc) ==
    JoinDot(SplitWs(Lower(DictGet(doc.details, "project_coordinator", <<>>)), <<>>))

\* the dictionary of lines 120-131; the _id is partition_id ":" timestamp
MakeNote(req, projects) ==
    [_id |-> <<req.partition_id, req.created_time>>,
     user |-> req.user,
     email |-> req.email,
     note |-> req.note,
     categories |-> req.categories,
     projects |-> projects,
     parent |-> req.partition_id,
     note_type |-> req.note_type,
     created_at_utc |-> req.created_time,
     updated_at_utc |-> req.created_time]

\* a note_type without a branch is given no projects instead of failing (a
\* "connected_projects = []" ahead of the branches): the fault C12 excludes
ResolveFails_DefaultProjects(exc) ==
    IF request.note_type \notin {"project", "flowcell", "flowcell_ont"}
    THEN /\ connected_projects' = <<>>
         /\ newNote' = MakeNote(request, <<>>)
         /\ pc' = "save"
         /\ UNCHANGED <<proj_ids, proj_coord_with_accents, userTags, error, response>>
    ELSE /\ Raise(exc)
         /\ UNCHANGED locals

\* a run without a linkage row is given no projects instead of failing (the
\* rows are iterated instead of rows[0] being read): the fault C14 excludes
ResolveFails_EmptyOnMissing(exc) ==
    IF request.note_type \in {"flowcell", "flowcell_ont"}
    THEN /\ connected_projects' = <<>>
         /\ newNote' = MakeNote(request, <<>>)
         /\ pc' = "save"
         /\ UNCHANGED <<proj_ids, proj_coord_with_accents, userTags, error, response>>
    ELSE /\ Raise(exc)
         /\ UNCHANGED locals

\* the exception leaves make_running_note and post: nothing is bound
ResolveFails(exc) ==
    /\ Raise(exc)
    /\ UNCHANGED locals

Resolve ==
    /\ pc = "resolve"
    /\ LET partition_id == request.partition_id
           note_type == request.note_type
           exc == ResolveError(partition_id, note_type)
       IN  IF exc # "none"
           THEN ResolveFails(exc)
           ELSE /\ connected_projects' = ConnectedProjects(partition_id, note_type)
                /\ IF note_type = "project"
                   THEN LET doc == ProjectDocs[ProjectIdView[partition_id]]
                        IN  /\ proj_ids' = <<partition_id, doc.project_name>>
                            /\ proj_coord_with_accents' = ProjCoordWithAccents(doc)
                   ELSE UNCHANGED <<proj_ids, proj_coord_with_accents>>
                /\ newNote' = MakeNote(request, connected_projects')
                /\ pc' = "save"
                /\ UNCHANGED <<userTags, error, response>>
    /\ UNCHANGED <<stores, history, request, saved, notifying, copying>>
    /\ UNCHANGED <<cache, searching>>

(***************************************************************************)
(* line 133: application.running_notes_db.save(newNote).  The document     *)
(* carries an _id and no _rev: the store refuses it when a document of     *)
(* that _id exists, and any write may fail.                                *)
(***************************************************************************)
IdTaken(doc) == \E d \in running_notes_db : d._id = doc._id

\* Save with the write left out, as if the note were stored only after the
\* notifications: the fault C1 excludes
Save_Deferred ==
    /\ pc = "save"
    /\ pc' = "tags"
    /\ UNCHANGED <<stores, history, request, locals, saved, notifying, copying,
                   error, response>>
    /\ UNCHANGED <<cache, searching>>

\* Save with the failure of the write caught and passed over, so that
\* make_running_note goes on without a stored note: the fault C17 excludes
Save_Swallowed ==
    /\ pc = "save"
    /\ \/ /\ ~IdTaken(newNote)
          /\ running_notes_db' = running_notes_db \cup {newNote}
          /\ saved' = TRUE
       \/ UNCHANGED <<running_notes_db, saved>>
    /\ pc' = "tags"
    /\ UNCHANGED <<project_running_notes, notification_preferences, history,
                   request, locals, notifying, copying, error, response>>
    /\ UNCHANGED <<cache, searching>>

Save ==
    /\ pc = "save"
    /\ \/ /\ ~IdTaken(newNote)
          /\ running_notes_db' = running_notes_db \cup {newNote}
          /\ saved' = TRUE
          /\ pc' = "tags"
          /\ UNCHANGED <<error, response>>
       \/ /\ IdTaken(newNote)
          /\ Raise("ResourceConflict")
          /\ UNCHANGED <<running_notes_db, saved>>
       \/ /\ ~IdTaken(newNote)
          /\ Raise("SaveError")
          /\ UNCHANGED <<running_notes_db, saved>>
    /\ UNCHANGED <<project_running_notes, notification_preferences, history,
                   request, locals, notifying, copying>>
    /\ UNCHANGED <<cache, searching>>

(***************************************************************************)
(* lines 135-148: the users tagged in a project note                       *)
(***************************************************************************)
\* the call notify_tagged_user(application, tags, project, ..., tagtype)
NotifyCall(tags, tagtype) == [userTags |-> tags, project |-> proj_ids, tagtype |-> tagtype]

\* the tags are looked for whatever the note_type (line 135 left out): the
\* fault C19 excludes
TagUsers_AllTypes ==
    /\ pc = "tags"
    /\ userTags' = FindUserTags(request.note)
    /\ IF userTags' # <<>>
       THEN /\ calls' = Append(calls, NotifyCall(userTags', "userTag"))
            /\ n_tags' = userTags'
            /\ n_after' = "coord"
            /\ pc' = "notify"
       ELSE /\ pc' = "coord"
            /\ UNCHANGED <<calls, n_tags, n_after>>
    /\ UNCHANGED <<stores, history, request, connected_projects, proj_ids,
                   proj_coord_with_accents, newNote, saved, outcomes, copying,
                   error, response>>
    /\ UNCHANGED <<cache, searching>>

TagUsers ==
    /\ pc = "tags"
    /\ IF request.note_type = "project"
       THEN /\ userTags' = FindUserTags(request.note)
            /\ IF userTags' # <<>>
               THEN /\ calls' = Append(calls, NotifyCall(userTags', "userTag"))
                    /\ n_tags' = userTags'
                    /\ n_after' = "coord"
                    /\ pc' = "notify"
               ELSE /\ pc' = "coord"
                    /\ UNCHANGED <<calls, n_tags, n_after>>
       ELSE /\ pc' = "link"
            /\ UNCHANGED <<userTags, calls, n_tags, n_after>>
    /\ UNCHANGED <<stores, history, request, connected_projects, proj_ids,
                   proj_coord_with_accents, newNote, saved, outcomes, copying,
                   error, response>>
    /\ UNCHANGED <<cache, searching>>

(***************************************************************************)
(* notify_tagged_user, lines 244-359: one turn of "for user in userTags"   *)
(***************************************************************************)
\* line 245: user in view_result
Resolved(user) == user \in DOMAIN ViewResult

\* lines 246-248: get_user_details(...).get("notification_preferences", "Both")
Option(email) ==
    IF notification_preferences[email] = Unset THEN "Both"
    ELSE notification_preferences[email]

\* line 250
TrySlack(option) == option = "Slack" \/ option = "Both"

\* lines 304-306: except Exception: option = "E-mail"
AfterSlack(option, slack_ok) ==
    IF TrySlack(option) /\ ~slack_ok THEN "E-mail" ELSE option

\* line 309
TryMail(option) == option = "E-mail" \/ option = "Both"

Outcome(user, resolved, option, slack, mail) ==
    [call |-> Len(calls), user |-> user, resolved |-> resolved,
     option |-> option, slack |-> slack, mail |-> mail]

\* the loop goes on to the next handle, or notify_tagged_user returns
NextUser ==
    /\ n_tags' = Tail(n_tags)
    /\ pc' = IF Tail(n_tags) = <<>> THEN n_after ELSE "notify"
    /\ UNCHANGED <<error, response>>

\* lines 244-245: a handle that is not in view_result; the body of the loop
\* is not entered
\* the loop without the test of line 245: view_result[user] raises KeyError,
\* the fault C6 excludes
SkipUser_KeyError(user) ==
    /\ outcomes' = Append(outcomes, Outcome(user, FALSE, "none", "none", "none"))
    /\ Raise("KeyError")
    /\ UNCHANGED n_tags

SkipUser(user) ==
    /\ outcomes' = Append(outcomes, Outcome(user, FALSE, "none", "none", "none"))
    /\ NextUser

notify_tagged_user ==
    /\ pc = "notify"
    /\ n_tags # <<>>
    /\ LET user == Head(n_tags)
       IN  IF ~Resolved(user)
           THEN SkipUser(user)
           ELSE \E slack_ok \in BOOLEAN,
                   smtp \in {"sent", "connect_failed", "sendmail_failed"} :
                    LET option == Option(ViewResult[user])
                        option2 == AfterSlack(option, slack_ok)
                        slack == IF ~TrySlack(option) THEN "none"
                                 ELSE IF slack_ok THEN "sent" ELSE "failed"
                        mail == IF TryMail(option2) THEN smtp ELSE "none"
                    IN  \* an outcome of a call that is not made is not a choice
                        /\ TrySlack(option) \/ slack_ok
                        /\ TryMail(option2) \/ smtp = "sent"
                        /\ outcomes' = Append(outcomes,
                                Outcome(user, TRUE, option, slack, mail))
                        /\ IF mail = "connect_failed"
                           THEN \* smtplib.SMTP("localhost"), line 355
                                Raise("ConnectionRefusedError") /\ UNCHANGED n_tags
                           ELSE IF mail = "sendmail_failed"
                           THEN \* s.sendmail(...), line 356
                                Raise("SMTPException") /\ UNCHANGED n_tags
                           ELSE NextUser
    /\ UNCHANGED <<stores, history, request, locals, saved, n_after, calls, copying>>
    /\ UNCHANGED <<cache, searching>>

(***************************************************************************)
(* lines 151-170: the project coordinator                                  *)
(***************************************************************************)
\* unicodedata.normalize("NFKD", s).encode("ASCII", "ignore").decode("utf-8")
ProjCoord(with_accents) == NfkdAscii(with_accents)

\* the condition without "proj_coord not in userTags": the fault C20 excludes
CoordinatorCondition_NoTagTest(proj_coord, tags, email) ==
    /\ proj_coord # <<>>
    /\ proj_coord # LocalPart(email)

\* the condition of lines 156-160
CoordinatorCondition(proj_coord, tags, email) ==
    /\ proj_coord # <<>>
    /\ proj_coord \notin SeqToSet(tags)
    /\ proj_coord # LocalPart(email)

NotifyCoordinator ==
    /\ pc = "coord"
    /\ LET proj_coord == ProjCoord(proj_coord_with_accents)
       IN  IF CoordinatorCondition(proj_coord, userTags, request.email)
           THEN /\ calls' = Append(calls, NotifyCall(<<proj_coord>>, "creation"))
                /\ n_tags' = <<proj_coord>>
                /\ n_after' = "link"
                /\ pc' = "notify"
           ELSE /\ pc' = "link"
                /\ UNCHANGED <<calls, n_tags, n_after>>
    /\ UNCHANGED <<stores, history, request, locals, saved, outcomes, copying,
                   error, response>>
    /\ UNCHANGED <<cache, searching>>

(***************************************************************************)
(* lines 171-202: the note is copied to every connected project            *)
(***************************************************************************)
\* line 171
IsCopied(note_type) == note_type \in {"flowcell", "workset", "flowcell_ont"}

\* choose_link[note_type], lines 172-176
ChooseLink(note_type) ==
    CASE note_type = "flowcell" -> "flowcells"
      [] note_type = "workset" -> "worksets"
      [] note_type = "flowcell_ont" -> "flowcells_ont"

\* note_type.split("_")[0]
TypeWord(note_type) ==
    CASE note_type = "flowcell_ont" -> "flowcell"
      [] OTHER -> note_type

\* the header of lines 177-180, as the pieces the f-strings put together
Header(note_type, partition_id) ==
    <<"#####*Running note posted on ", TypeWord(note_type), " ",
      "<a class='text-decoration-none' href='/", ChooseLink(note_type), "/",
      partition_id, "'>", partition_id, "</a>", ":*\n">>

\* project_note, lines 178-181
ProjectNote(note_type, partition_id, note) == Header(note_type, partition_id) \o note

\* ", ".join(categories), line 194
RECURSIVE JoinComma(_)
JoinComma(parts) ==
    IF parts = <<>> THEN <<>>
    ELSE IF Len(parts) = 1 THEN <<parts[1]>>
    ELSE <<parts[1], ", ">> \o JoinComma(Tail(parts))

\* a loop that stops after the first project, the fault C10 excludes
CopyTargets_FirstOnly(projects) ==
    IF projects = <<>> THEN <<>> ELSE <<Head(projects)>>

\* line 182: what "for proj_id in connected_projects" iterates over
CopyTargets(projects) == projects

BeginCopy ==
    /\ pc = "link"
    /\ to_copy' = IF IsCopied(request.note_type)
                  THEN CopyTargets(connected_projects) ELSE <<>>
    /\ pc' = "copy"
    /\ UNCHANGED <<stores, history, request, locals, saved, notifying, copied,
                   copies_at_post, error, response>>
    /\ UNCHANGED <<cache, searching>>

\* RunningNotesDataHandler.make_project_running_note of status/projects.py:
\* the note it writes onto the project.  It persists one project note and does
\* nothing else.
make_project_running_note(proj_id, project_note, category, user, email) ==
    [project |-> proj_id, note |-> project_note, category |-> category,
     user |-> user, email |-> email, note_type |-> "project"]

\* the arguments lines 195-202 pass for proj_id
CopyArguments(proj_id) ==
    [proj_id |-> proj_id,
     project_note |-> ProjectNote(request.note_type, request.partition_id,
                                  request.note),
     category |-> JoinComma(request.categories),
     user |-> request.user,
     email |-> request.email]

\* the copy made by the call the comment of lines 183-192 keeps,
\* make_running_note(application, proj_id, project_note, ..., "project"): the
\* whole creation, with the users tagged in project_note notified.  The fault
\* C11 excludes.
CopyToProject_FullCreate ==
    /\ pc = "copy"
    /\ to_copy # <<>>
    /\ LET a == CopyArguments(Head(to_copy))
           tags == FindUserTags(a.project_note)
       IN  /\ project_running_notes' = Append(project_running_notes,
                    make_project_running_note(a.proj_id, a.project_note,
                                              a.category, a.user, a.email))
           /\ copied' = Append(copied, a)
           /\ to_copy' = Tail(to_copy)
           /\ calls' = IF tags = <<>> THEN calls
                       ELSE Append(calls, [userTags |-> tags,
                                           project |-> <<a.proj_id>>,
                                           tagtype |-> "userTag"])
    /\ UNCHANGED <<running_notes_db, notification_preferences, history, request,
                   locals, saved, n_tags, n_after, outcomes, copies_at_post,
                   pc, error, response>>
    /\ UNCHANGED <<cache, searching>>

CopyToProject ==
    /\ pc = "copy"
    /\ to_copy # <<>>
    /\ LET a == CopyArguments(Head(to_copy))
       IN  \/ /\ project_running_notes' = Append(project_running_notes,
                    make_project_running_note(a.proj_id, a.project_note,
                                              a.category, a.user, a.email))
              /\ copied' = Append(copied, a)
              /\ to_copy' = Tail(to_copy)
              /\ UNCHANGED <<pc, error, response>>
           \/ /\ Raise("ProjectNoteError")
              /\ copied' = Append(copied, a)
              /\ UNCHANGED <<project_running_notes, to_copy>>
    /\ UNCHANGED <<running_notes_db, notification_preferences, history, request,
                   locals, saved, notifying, copies_at_post>>
    /\ UNCHANGED <<cache, searching>>

\* line 203, then lines 78-79 of post
Return ==
    /\ pc = "copy"
    /\ to_copy = <<>>
    /\ pc' = "returned"
    /\ response' = [status |-> 201, note |-> newNote]
    /\ created_ids' = created_ids \cup {newNote._id}
    /\ UNCHANGED <<stores, posts, request, locals, saved, notifying, copying,
                   error>>
    /\ UNCHANGED <<cache, searching>>

Next ==
    \/ Post
    \/ PostAgain
    \/ Resolve
    \/ Save
    \/ TagUsers
    \/ notify_tagged_user
    \/ NotifyCoordinator
    \/ BeginCopy
    \/ CopyToProject
    \/ Return

Spec == Init /\ [][Next]_vars

TypeOK ==
    /\ posts \in 0..(MaxPosts + MaxRepeats)
    /\ pc \in {"idle", "rejected", "resolve", "save", "tags", "notify", "coord",
               "link", "copy", "returned", "raised"}
    /\ saved \in BOOLEAN
    /\ response.status \in {0, 201, 400, 500}
    /\ (pc = "raised") = (error # "none")
    /\ \A d \in running_notes_db : d.parent \in Partitions

(***************************************************************************)
(* The tag extraction of lines 136-137 over all short texts: a project     *)
(* note on P1 has been stored (line 133) and lines 135-148 run on its      *)
(* text.                                                                   *)
(***************************************************************************)
\* longest text of TagTexts
MaxNoteLen == 4

\* characters inside and outside the class of the pattern
TagAlphabet == {"@", "a", "B", "2", ".", "-", " ", "_"}

ExampleMentions ==
    <<"h","e","l","l","o"," ","@","j","a","n","e",".","d","o","e"," ",
      "a","n","d"," ","@","b","o","b","-","2">>

ExampleNone ==
    <<"n","o"," ","m","e","n","t","i","o","n","s"," ","h","e","r","e">>

TagTexts ==
    (UNION {[1..k -> TagAlphabet] : k \in 1..MaxNoteLen})
        \cup {ExampleMentions, ExampleNone}

InitTags ==
    /\ \E text \in TagTexts, user \in Authors :
        /\ request = [partition_id |-> "P1",
                      note |-> text,
                      categories |-> <<"Lab", "Admin">>,
                      user |-> user.name,
                      email |-> user.email,
                      note_type |-> "project",
                      created_time |-> DefaultCreatedTime]
        /\ newNote = MakeNote(request, ConnectedProjects("P1", "project"))
    /\ running_notes_db = {newNote}
    /\ project_running_notes = <<>>
    /\ notification_preferences = [e \in {EmailA, EmailB} |-> Unset]
    /\ posts = 1
    /\ created_ids = {}
    /\ pc = "tags"
    /\ connected_projects = ConnectedProjects("P1", "project")
    /\ proj_ids = <<"P1", ProjectDocs[ProjectIdView["P1"]].project_name>>
    /\ proj_coord_with_accents = ProjCoordWithAccents(ProjectDocs[ProjectIdView["P1"]])
    /\ saved = TRUE
    /\ userTags = <<>>
    /\ n_tags = <<>>
    /\ n_after = "none"
    /\ calls = <<>>
    /\ outcomes = <<>>
    /\ to_copy = <<>>
    /\ copied = <<>>
    /\ copies_at_post = 0
    /\ error = "none"
    /\ response = [status |-> 0, note |-> NoNote]
    /\ NoSearch

NextTags == TagUsers

SpecTags == InitTags /\ [][NextTags]_vars

(***************************************************************************)
(* FlowcellSearchHandler.search_flowcell_names (status/flowcells.py, lines *)
(* 273-340): the three lists of flowcell names are cached in class         *)
(* attributes and fetched again when they are older than three minutes.    *)
(***************************************************************************)
\* number of searches in one run
MaxSearches == 3
\* the clock stops here
MaxTime == 5

\* relativedelta(minutes=3), line 281
StaleMinutes == 3

\* everything the running-notes handler owns
notes_vars ==
    <<stores, history, pc, request, locals, saved, notifying, copying, error,
      response>>

\* a row key is a string, or null in a row that has no name
StrKey(text) == [is_str |-> TRUE, text |-> text]
NullKey == [is_str |-> FALSE, text |-> <<>>]

\* flowcells_db, view "info/id", descending
FlowcellKeys == <<StrKey(<<"2", "_", "B", "_", "a">>)>>
\* x_flowcells_db, view "info/id", descending
XFlowcellKeys == <<StrKey(<<"3", "_", "A", "b">>), NullKey>>
\* nanopore_runs_db, view "names/name", descending
NanoporeKeys == <<StrKey(<<"o", "_", "b">>)>>

SearchStrings == {<<>>, <<"a">>, <<"B">>}

\* sub in s
Contains(sub, s) ==
    \E i \in 0..(Len(s) - Len(sub)) : SubSeq(s, i + 1, i + Len(sub)) = sub

\* s.split("_")[0]
RECURSIVE FirstPart(_)
FirstPart(s) ==
    IF s = <<>> \/ Head(s) = "_" THEN <<>> ELSE <<Head(s)>> \o FirstPart(Tail(s))

\* s.split("_")[-1]
RECURSIVE LastPart(_)
LastPart(s) ==
    IF \A i \in DOMAIN s : s[i] # "_" THEN s ELSE LastPart(Tail(s))

\* "/flowcells/{}_{}".format(splitted_fc[0], splitted_fc[-1])
FlowcellUrl(row_key) ==
    <<"/flowcells/">> \o FirstPart(row_key) \o <<"_">> \o LastPart(row_key)

\* f"/flowcells_ont/{row_key}"
OntUrl(row_key) == <<"/flowcells_ont/">> \o row_key

\* one of the loops of lines 302-338: the rows whose key holds the string; a
\* key that is no string raises AttributeError in lower(), which is passed over
RECURSIVE Matches(_, _, _)
Matches(keys, str, ont) ==
    IF keys = <<>> THEN <<>>
    ELSE LET k == Head(keys)
         IN  (IF k.is_str /\ Contains(str, Lower(k.text))
              THEN <<[url |-> IF ont THEN OntUrl(k.text) ELSE FlowcellUrl(k.text),
                      name |-> k.text]>>
              ELSE <<>>)
             \o Matches(Tail(keys), str, ont)

SearchFinished == s_pc \in {"idle", "returned", "raised"}

SearchRaise(exc) ==
    /\ s_pc' = "raised"
    /\ s_error' = exc
    /\ s_response' = [kind |-> "none", items |-> <<>>]

\* lines 283-286: "None < t_threshold" raises TypeError
StalenessTest(t_threshold) ==
    IF cached_fc_list = None THEN "refresh"
    ELSE IF last_fetched = None THEN "TypeError"
    ELSE IF last_fetched[1] < t_threshold THEN "refresh"
    ELSE "cached"

\* lines 273-286: the call, up to the decision to fetch
Search ==
    /\ SearchFinished
    /\ searches < MaxSearches
    /\ searches' = searches + 1
    /\ \E str \in SearchStrings :
        /\ search_string' = str
        /\ IF Len(str) = 0
           THEN /\ s_pc' = "returned"
                /\ s_error' = "none"
                /\ s_response' = [kind |-> "str", items |-> <<>>]
           ELSE LET test == StalenessTest(now - StaleMinutes)
                IN  IF test = "TypeError"
                    THEN SearchRaise("TypeError")
                    ELSE /\ s_pc' = IF test = "refresh" THEN "fc" ELSE "serve"
                         /\ s_error' = "none"
                         /\ s_response' = [kind |-> "none", items |-> <<>>]
    /\ UNCHANGED <<cache, now, notes_vars>>

\* lines 287-288; the query may fail
FetchFc ==
    /\ s_pc = "fc"
    /\ \/ /\ cached_fc_list' = Some(FlowcellKeys)
          /\ s_pc' = "xfc"
          /\ UNCHANGED <<s_error, s_response>>
       \/ /\ SearchRaise("ViewError")
          /\ UNCHANGED cached_fc_list
    /\ UNCHANGED <<cached_xfc_list, cached_ont_fc_list, last_fetched, now,
                   searches, search_string, notes_vars>>

\* lines 290-291
FetchXfc ==
    /\ s_pc = "xfc"
    /\ \/ /\ cached_xfc_list' = Some(XFlowcellKeys)
          /\ s_pc' = "ont"
          /\ UNCHANGED <<s_error, s_response>>
       \/ /\ SearchRaise("ViewError")
          /\ UNCHANGED cached_xfc_list
    /\ UNCHANGED <<cached_fc_list, cached_ont_fc_list, last_fetched, now,
                   searches, search_string, notes_vars>>

\* lines 293-296
FetchOnt ==
    /\ s_pc = "ont"
    /\ \/ /\ cached_ont_fc_list' = Some(NanoporeKeys)
          /\ s_pc' = "stamp"
          /\ UNCHANGED <<s_error, s_response>>
       \/ /\ SearchRaise("ViewError")
          /\ UNCHANGED cached_ont_fc_list
    /\ UNCHANGED <<cached_fc_list, cached_xfc_list, last_fetched, now,
                   searches, search_string, notes_vars>>

\* line 298
Stamp ==
    /\ s_pc = "stamp"
    /\ last_fetched' = Some(now)
    /\ s_pc' = "serve"
    /\ UNCHANGED <<cached_fc_list, cached_xfc_list, cached_ont_fc_list, now,
                   searches, search_string, s_error, s_response, notes_vars>>

\* lines 300-340: the answer from the cached lists; a list that is None
\* cannot be iterated
Serve ==
    /\ s_pc = "serve"
    /\ IF cached_xfc_list = None \/ cached_ont_fc_list = None
            \/ cached_fc_list = None
       THEN SearchRaise("TypeError")
       ELSE LET str == Lower(search_string)
            IN  /\ s_response' =
                     [kind |-> "list",
                      items |-> Matches(cached_xfc_list[1], str, FALSE)
                                  \o Matches(cached_ont_fc_list[1], str, TRUE)
                                  \o Matches(cached_fc_list[1], str, FALSE)]
                /\ s_pc' = "returned"
                /\ UNCHANGED s_error
    /\ UNCHANGED <<cache, now, searches, search_string, notes_vars>>

\* time passes
Tick ==
    /\ now < MaxTime
    /\ now' = now + 1
    /\ UNCHANGED <<cache, searches, s_pc, search_string, s_error, s_response,
                   notes_vars>>

InitCache ==
    /\ Init
    /\ notification_preferences = [e \in {EmailA, EmailB} |-> Unset]

NextCache ==
    \/ Search
    \/ FetchFc
    \/ FetchXfc
    \/ FetchOnt
    \/ Stamp
    \/ Serve
    \/ Tick

SpecCache == InitCache /\ [][NextCache]_vars

(***************************************************************************)
(* What the requests' records say.                                         *)
(***************************************************************************)
\* exceptions that leave notify_tagged_user
NotifyErrors == {"ConnectionRefusedError", "SMTPException"}

\* the request has ended, with a response or with an exception
Ended == pc \in {"returned", "raised"}

RECURSIVE TagsBefore(_)
\* number of handles in the calls before call c
TagsBefore(c) == IF c <= 1 THEN 0 ELSE TagsBefore(c - 1) + Len(calls[c - 1].userTags)

\* handle j of call c has been visited by the loop
Visited(c, j) == TagsBefore(c) + j <= Len(outcomes)

\* what was done for handle j of call c
OutcomeOf(c, j) == outcomes[TagsBefore(c) + j]

SlackAttempted(c, j) == Visited(c, j) /\ OutcomeOf(c, j).slack # "none"
SlackFailed(c, j) == Visited(c, j) /\ OutcomeOf(c, j).slack = "failed"
MailAttempted(c, j) == Visited(c, j) /\ OutcomeOf(c, j).mail # "none"
MailSent(c, j) == Visited(c, j) /\ OutcomeOf(c, j).mail = "sent"

\* the handles of all calls, as (call, position) pairs
Handles == {cj \in (DOMAIN calls) \X (1..3) : cj[2] <= Len(calls[cj[1]].userTags)}

\* C1: in every execution of make_running_note the note is in the store before
\* notify_tagged_user is called, a failure of a notification step leaves it
\* there, and nothing is ever taken out of the store.
C1_SavedBeforeNotify ==
    /\ []((calls # <<>> \/ outcomes # <<>>)
            => (saved /\ newNote \in running_notes_db))
    /\ [][running_notes_db \subseteq running_notes_db']_vars

C1_Witness ==
    /\ pc = "raised"
    /\ error \in NotifyErrors
    /\ saved
    /\ newNote \in running_notes_db

\* C2: notify_tagged_user never raises: whatever fails in the Slack calls or at
\* the mail relay, a request that called it ends with make_running_note
\* returning the created note.
C2_NotifyNeverRaises ==
    (calls # <<>> /\ Ended)
        => (pc = "returned" /\ error = "none" /\ response.note = newNote)

\* C3: when the Slack calls throw for a user whose preference is Both, an
\* e-mail is attempted for that user in the same call and the create call does
\* not fail.
C3_SlackFailureFallsBack ==
    \A i \in DOMAIN outcomes :
        (outcomes[i].option = "Both" /\ outcomes[i].slack = "failed")
            => (outcomes[i].mail # "none" /\ pc # "raised")

\* C4: a failure while notifying one handle does not abort the others: when
\* the request has ended, every handle of every call that resolves has had its
\* notification attempt.
C4_PerUserIsolation ==
    Ended =>
        \A cj \in Handles :
            Resolved(calls[cj[1]].userTags[cj[2]])
                => (SlackAttempted(cj[1], cj[2]) \/ MailAttempted(cj[1], cj[2]))

\* the preference in force for a handle that resolves
PreferenceOf(handle) ==
    LET pref == notification_preferences[ViewResult[handle]]
    IN  IF pref = Unset THEN "Both" ELSE pref

\* C5: for each resolved handle of a call, a Slack send is attempted iff the
\* preference is Slack or Both (unset counts as Both), and an e-mail is sent
\* iff the preference is E-mail or Both or the Slack attempt failed.
C5_PreferenceRouting ==
    Ended =>
        \A cj \in Handles :
            LET handle == calls[cj[1]].userTags[cj[2]]
            IN  Resolved(handle) =>
                    /\ SlackAttempted(cj[1], cj[2])
                         <=> PreferenceOf(handle) \in {"Slack", "Both"}
                    /\ MailSent(cj[1], cj[2])
                         <=> \/ PreferenceOf(handle) \in {"E-mail", "Both"}
                             \/ SlackFailed(cj[1], cj[2])

\* the routing of C5 for the handles the loop has visited, with the e-mail
\* attempted rather than sent
VisitedHandlesRouted ==
    \A cj \in Handles :
        LET handle == calls[cj[1]].userTags[cj[2]]
        IN  (Resolved(handle) /\ Visited(cj[1], cj[2])) =>
                /\ SlackAttempted(cj[1], cj[2])
                     <=> PreferenceOf(handle) \in {"Slack", "Both"}
                /\ MailAttempted(cj[1], cj[2])
                     <=> \/ PreferenceOf(handle) \in {"E-mail", "Both"}
                         \/ SlackFailed(cj[1], cj[2])

\* a failure of the Slack calls alone never ends the request
SlackFailureContained ==
    pc = "raised" =>
        \A i \in DOMAIN outcomes : outcomes[i].mail \in {"none", "sent"}
            => i < Len(outcomes)

\* C6: a handle that does not resolve is skipped silently: no preference
\* lookup, no Slack attempt, no e-mail and no error for it, and the loop goes
\* on with the handles that remain.
C6_UnresolvedSkipped ==
    /\ [](\A i \in DOMAIN outcomes :
            ~Resolved(outcomes[i].user)
                => /\ outcomes[i].option = "none"
                   /\ outcomes[i].slack = "none"
                   /\ outcomes[i].mail = "none")
    /\ [][(pc = "notify" /\ n_tags # <<>> /\ ~Resolved(Head(n_tags)))
            => /\ error' = "none"
               /\ n_tags' = Tail(n_tags)
               /\ pc' = IF Tail(n_tags) = <<>> THEN n_after ELSE "notify"
               /\ Len(outcomes') = Len(outcomes) + 1]_vars

C6_Witness ==
    \E i \in DOMAIN outcomes :
        /\ ~Resolved(outcomes[i].user)
        /\ i < Len(outcomes)
        /\ Resolved(outcomes[i + 1].user)
        /\ outcomes[i + 1].call = outcomes[i].call
        /\ outcomes[i + 1].slack # "none"

CreationCalls == {c \in DOMAIN calls : calls[c].tagtype = "creation"}

\* C7: for a project note the coordinator is notified, by one call with the
\* coordinator's handle alone and reason creation, iff the normalized handle is
\* not empty, is not in userTags and is not the local part of the author's
\* e-mail address.
C7_CoordinatorNotifiedIff ==
    (Ended /\ saved /\ request.note_type = "project") =>
        LET proj_coord == ProjCoord(proj_coord_with_accents)
            due == /\ proj_coord # <<>>
                   /\ \A i \in DOMAIN userTags : userTags[i] # proj_coord
                   /\ proj_coord # LocalPart(request.email)
        IN  /\ due => /\ Cardinality(CreationCalls) = 1
                      /\ \A c \in CreationCalls :
                            calls[c].userTags = <<proj_coord>>
            /\ ~due => CreationCalls = {}

\* the coordinator decision of C7 for the requests that reach it
CoordinatorDecision ==
    (pc \in {"link", "copy", "returned"} /\ request.note_type = "project") =>
        LET proj_coord == ProjCoord(proj_coord_with_accents)
        IN  CreationCalls # {}
                <=> /\ proj_coord # <<>>
                    /\ \A i \in DOMAIN userTags : userTags[i] # proj_coord
                    /\ proj_coord # LocalPart(request.email)

KnownNoteTypes == {"project", "flowcell", "workset", "flowcell_ont"}

\* C8: every note create produces has a non-empty projects field and the
\* note_type of the request, and no note in the store has an empty projects
\* list.
C8_ProjectsNonEmpty ==
    /\ \A d \in running_notes_db :
            d.projects # <<>> /\ d.note_type \in KnownNoteTypes
    /\ pc = "returned" =>
            /\ response.note.projects # <<>>
            /\ response.note.note_type = request.note_type

\* C9: a create never reuses the _id of a note an earlier create returned: a
\* request sent twice gives two notes with two ids.
C9_DistinctIds == pc = "save" => newNote._id \notin created_ids

\* the project ids the run of the request is linked to
Linked ==
    IF request.note_type = "flowcell" THEN XFlowcellProjects[request.partition_id]
    ELSE NanoporeProjects[request.partition_id]

\* C10: a flowcell or flowcell_ont note that was created has given exactly one
\* project note per element of its linkage list, each for that project, each
\* the original note behind a header that names the run, and nothing else was
\* written.
C10_OneCopyPerProject ==
    (pc = "returned" /\ request.note_type \in {"flowcell", "flowcell_ont"}) =>
        /\ Len(project_running_notes) = copies_at_post + Len(Linked)
        /\ Len(copied) = Len(Linked)
        /\ \A i \in 1..Len(Linked) :
            LET d == project_running_notes[copies_at_post + i]
                h == Len(d.note) - Len(request.note)
            IN  /\ d.project = Linked[i]
                /\ d.note_type = "project"
                /\ h > 0
                /\ SubSeq(d.note, h + 1, Len(d.note)) = request.note
                /\ request.partition_id \in SeqToSet(SubSeq(d.note, 1, h))

C10_Witness ==
    /\ pc = "returned"
    /\ request.note_type = "flowcell"
    /\ Len(Linked) = 2
    /\ Len(project_running_notes) = copies_at_post + 2

C12_UnknownTypeFails ==
    /\ \A d \in running_notes_db : d.note_type \in KnownNoteTypes
    /\ (request.note # <<>> /\ request.note_type \notin KnownNoteTypes
            /\ pc # "resolve")
         => /\ pc = "raised"
            /\ error # "none"
            /\ response.status = 500
            /\ ~saved
            /\ calls = <<>> /\ outcomes = <<>>
            /\ copied = <<>>
            /\ Len(project_running_notes) = copies_at_post

C12_Witness ==
    /\ pc = "raised"
    /\ request.note_type = ""
    /\ request.note = NoteAB
    /\ error = "UnboundLocalError"

\* failures of the stores' writes, which no claim about note types excludes
WriteErrors == {"SaveError", "ResourceConflict", "ProjectNoteError"}

\* C13: a workset note is accepted: its projects are those a flowcell note of
\* the same parent gets, it is stored with note_type workset, and one derived
\* project note is written per project.
C13_WorksetAccepted ==
    (/\ request.note_type = "workset"
     /\ HasRow(XFlowcellProjects, request.partition_id)
     /\ Ended
     /\ error \notin WriteErrors)
        => /\ pc = "returned"
           /\ response.note.note_type = "workset"
           /\ response.note.projects = XFlowcellProjects[request.partition_id]
           /\ response.note \in running_notes_db
           /\ Len(copied) = Len(XFlowcellProjects[request.partition_id])

\* the view that resolves a parent of this note_type has a row for it
ParentResolves(partition_id, note_type) ==
    CASE note_type = "project" -> HasRow(ProjectIdView, partition_id)
      [] note_type = "flowcell" -> HasRow(XFlowcellProjects, partition_id)
      [] note_type = "flowcell_ont" -> HasRow(NanoporeProjects, partition_id)
      [] OTHER -> TRUE

\* C14: a project, flowcell or flowcell_ont request whose parent does not
\* resolve ends with an error at the caller, with no note stored, no
\* notification and no derived note; the store never holds a note of a parent
\* that does not resolve.
C14_UnresolvedParentFails ==
    /\ \A d \in running_notes_db : ParentResolves(d.parent, d.note_type)
    /\ (request.note # <<>>
            /\ request.note_type \in {"project", "flowcell", "flowcell_ont"}
            /\ ~ParentResolves(request.partition_id, request.note_type)
            /\ pc # "resolve")
         => /\ pc = "raised"
            /\ error \in {"UnboundLocalError", "IndexError"}
            /\ response.status = 500
            /\ ~saved
            /\ calls = <<>> /\ outcomes = <<>>
            /\ copied = <<>>
            /\ Len(project_running_notes) = copies_at_post

C14_Witness ==
    /\ pc = "raised"
    /\ request.note_type = "flowcell"
    /\ request.partition_id = "P1"
    /\ error = "IndexError"
    /\ running_notes_db = {}

\* project_name of the project record of a parent
ProjectName(partition_id) == ProjectDocs[ProjectIdView[partition_id]].project_name

\* C15 as the claim has it: the stored project note's projects field is
\* [parent_id, project_display_name].
C15_ProjectsWithName ==
    \A d \in running_notes_db :
        d.note_type = "project" => d.projects = <<d.parent, ProjectName(d.parent)>>

\* C15, amended: the stored project note's projects field is [parent_id], the
\* parent project id alone; the pair [parent_id, project_display_name] is
\* proj_ids, which the notifications are given.
C15_ProjectsIsParent ==
    /\ \A d \in running_notes_db :
            d.note_type = "project" => d.projects = <<d.parent>>
    /\ (request.note_type = "project" /\ pc \notin {"resolve", "raised"})
         => /\ newNote.projects = <<request.partition_id>>
            /\ proj_ids = <<request.partition_id, ProjectName(request.partition_id)>>
            /\ \A c \in DOMAIN calls : calls[c].project = proj_ids

C15_Witness ==
    /\ pc = "returned"
    /\ request.note_type = "project"
    /\ response.note.projects = <<"P1">>
    /\ response.note \in running_notes_db
    /\ proj_ids = <<"P1", "Alpha">>
    /\ calls # <<>>

\* C16: a POST without a note is answered 400 and nothing is created, stored,
\* notified or copied for it; a POST that is answered 201 had a note and
\* carries the note that was created and stored; no stored note is empty.
C16_PostStatus ==
    /\ pc = "rejected"
         => /\ response.status = 400
            /\ request = NoRequest /\ newNote = NoNote
            /\ ~saved
            /\ calls = <<>> /\ outcomes = <<>>
            /\ copied = <<>>
            /\ Len(project_running_notes) = copies_at_post
    /\ response.status = 400 => pc = "rejected"
    /\ pc = "returned"
         => /\ response.status = 201
            /\ request.note # <<>>
            /\ response.note = newNote
            /\ newNote \in running_notes_db
    /\ response.status = 201 => pc = "returned"
    /\ \A d \in running_notes_db : d.note # <<>>

C16_Witness ==
    /\ pc = "rejected"
    /\ response.status = 400
    /\ posts = 1
    /\ running_notes_db = {}

\* exceptions of running_notes_db.save
SaveErrors == {"SaveError", "ResourceConflict"}

\* C17: a save that fails ends the request with the error at the caller: the
\* note is not stored by a second attempt, no notification is made and no
\* derived note is written; every request that goes past line 133 has stored
\* its note.
C17_SaveFailureFatal ==
    /\ error \in SaveErrors
         => /\ pc = "raised"
            /\ response.status = 500
            /\ ~saved
            /\ calls = <<>> /\ outcomes = <<>>
            /\ copied = <<>>
            /\ Len(project_running_notes) = copies_at_post
    /\ pc \in {"tags", "notify", "coord", "link", "copy", "returned"}
         => (saved /\ newNote \in running_notes_db)

C17_Witness ==
    /\ pc = "raised"
    /\ error = "SaveError"
    /\ request.note_type = "flowcell"
    /\ request.note = NoteAB
    /\ Len(connected_projects) = 2
    /\ newNote \notin running_notes_db

\* the positions of the "@" that a letter, digit, dot or hyphen follows
TagStarts(s) ==
    {i \in 1..Len(s) : s[i] = "@" /\ i < Len(s) /\ s[i + 1] \in HandleChars}

\* the last position of the maximal run of such characters that begins at i
RunEnd(s, i) ==
    CHOOSE j \in i..Len(s) :
        /\ \A k \in i..j : s[k] \in HandleChars
        /\ j = Len(s) \/ s[j + 1] \notin HandleChars

\* the k-th of TagStarts(s), from the left
KthStart(s, k) ==
    CHOOSE i \in TagStarts(s) : Cardinality({j \in TagStarts(s) : j < i}) = k - 1

\* the runs behind the "@"s, in order of occurrence, duplicates kept
ExpectedTags(s) ==
    [k \in 1..Cardinality(TagStarts(s)) |->
        SubSeq(s, KthStart(s, k) + 1, RunEnd(s, KthStart(s, k) + 1))]

\* C18: userTags is, in order of occurrence and with duplicates, every maximal
\* run of letters, digits, dots or hyphens that directly follows an "@" of the
\* note, without the "@" ("hello @jane.doe and @bob-2" gives jane.doe, bob-2);
\* a text without such a run gives no tags and no userTag call, and a text
\* with one gives one userTag call with exactly these tags.
C18_TagExtraction ==
    pc # "tags" =>
        /\ userTags = ExpectedTags(request.note)
        /\ request.note = ExampleMentions
             => userTags = << <<"j","a","n","e",".","d","o","e">>,
                              <<"b","o","b","-","2">> >>
        /\ request.note = ExampleNone => userTags = <<>>
        /\ userTags = <<>> => calls = <<>>
        /\ userTags # <<>>
             => (Len(calls) = 1 /\ calls[1].tagtype = "userTag"
                    /\ calls[1].userTags = userTags)

\* a handle tagged twice is kept twice
C18_Witness ==
    /\ pc = "notify"
    /\ Len(userTags) = 2
    /\ userTags[1] = userTags[2]
    /\ Len(request.note) = 4

\* C19: a flowcell, workset or flowcell_ont request never has a
\* notify_tagged_user call, a Slack or e-mail attempt or extracted tags,
\* whatever its text; what it has written is its own note and one project
\* note per copy made.
C19_NonProjectNeverNotifies ==
    (request.note # <<>> /\ IsCopied(request.note_type))
        => /\ calls = <<>> /\ outcomes = <<>>
           /\ userTags = <<>> /\ n_tags = <<>>
           /\ pc \notin {"notify", "coord"}
           /\ Len(project_running_notes) - copies_at_post
                \in {Len(copied), Len(copied) - 1}

C19_Witness ==
    /\ pc = "link"
    /\ request.note_type = "flowcell_ont"
    /\ request.note = NoteAB
    /\ saved
    /\ calls = <<>>

UserTagCalls == {c \in DOMAIN calls : calls[c].tagtype = "userTag"}

\* C20: in one creation no handle is given to notify_tagged_user under both
\* reasons, and there is at most one call of each reason.
C20_NoDoubleNotification ==
    /\ Cardinality(CreationCalls) <= 1
    /\ Cardinality(UserTagCalls) <= 1
    /\ \A c \in CreationCalls : \A u \in UserTagCalls :
            \A i \in DOMAIN calls[c].userTags :
                calls[c].userTags[i] \notin SeqToSet(calls[u].userTags)

\* the coordinator of P1 is tagged in the note: one call, reason userTag
C20_Witness ==
    /\ pc = "returned"
    /\ request.note_type = "project"
    /\ ProjCoord(proj_coord_with_accents) \in SeqToSet(userTags)
    /\ ProjCoord(proj_coord_with_accents) # LocalPart(request.email)
    /\ Cardinality(UserTagCalls) = 1
    /\ CreationCalls = {}

\* C21: between searches, whenever cached_fc_list is set, last_fetched,
\* cached_xfc_list and cached_ont_fc_list are set too, also after a search in
\* which one of the three queries raised; so no search fails in the staleness
\* test or in reading the lists.
C21_CacheConsistent ==
    /\ (SearchFinished /\ cached_fc_list # None)
         => /\ last_fetched # None
            /\ cached_xfc_list # None
            /\ cached_ont_fc_list # None
    /\ s_error # "TypeError"

\* what the order of lines 288-298 does give: once last_fetched is set, the
\* three lists are
StampedCacheComplete ==
    last_fetched # None
        => /\ cached_fc_list # None
           /\ cached_xfc_list # None
           /\ cached_ont_fc_list # None

====
